---- MODULE Spec2Model ----
(***************************************************************************)
(* Model of src/data/latin/undiasimify.py: the phoneme segmenter           *)
(* (FrenchWord.phonemify), the syllabifier (FrenchWord.syllabify) and the  *)
(* orthographic transducer (orthographize) with its production table.      *)
(*                                                                         *)
(* A character is a short string: an ASCII character stands for itself,    *)
(* any other character is written by its code point ("u0251" is U+0251).   *)
(* A Python string is the sequence of its characters; '' is << >>.         *)
(***************************************************************************)
EXTENDS Integers, Sequences, FiniteSets, TLC

VARIABLES ipa, stress, text, pos, phonemes, ppc,
          kw_correction, syllables, initial, idx, spc,
          oword, g1, g2, dc

pvars == <<ipa, stress, text, pos, ppc>>
svars == <<kw_correction, syllables, initial, idx, spc>>
ovars == <<oword, g1, g2, dc>>
vars == <<ipa, stress, text, pos, phonemes, ppc,
          kw_correction, syllables, initial, idx, spc,
          oword, g1, g2, dc>>

(***************************************************************************)
(* Bounds of the model.                                                    *)
(***************************************************************************)
MaxIpa == 5
MaxPhonemes == 5
MaxWord == 5
MaxPairWord == 3
MaxFairWord == 4

(***************************************************************************)
(* Character classes (the regular-expression constants of the module).     *)
(***************************************************************************)
STRESS == {"u02c8", "u02cc"}
DIACRITIC == {"u02b0", "u02b2", "u02e0", "u02b7", "u1da3", "u02e4", "u02e1",
              "u0303", "u0308", "u030d", "u030a", "u0325", "u032c", "u032a",
              "u032f", "u0329", "u0330", "u0324", "u0339", "u02d0"}
TIE == "u0361"
VOWEL == {"u0259", "u025c", "i", "y", "u026a", "u028f", "e", "u00f8", "u025b",
          "u0153", "u00e6", "u1d02", "a", "u0276", "u0268", "u0289", "u0258",
          "u0275", "u025e", "u1d00", "u026f", "u", "u03c9", "u028a", "u0264",
          "o", "u028c", "u0254", "u0251", "u0252", "u0250"}
LIQUID == {"u027e", "r", "u0279", "u026c", "u026e", "l", "u026b", "u027a",
           "u028e", "u029f", "u0281", "u0280"}
STOP == {"p", "b", "t", "d", "c", "u025f", "k", "u0261", "g", "q", "u0262",
         "u0294"}
WAW == {"w"}
VELAR == {"k", "u0261", "g"}
SYLLABIC == {"u0329", "u030d"}
NONSYLLABIC == {"u032f"}

\* The combining marks (Unicode category Mn) of the module and '#': the
\* characters of the model's universe that Python's \w does not match.  The
\* modifier letters (the stress marks, U+02B0 and the like, U+02D0) are
\* category Lm, which \w matches.
NONWORD == {"u0303", "u0308", "u030d", "u030a", "u0325", "u032c", "u032a",
            "u032f", "u0329", "u0330", "u0324", "u0339", "u0361", "#"}
IsWordChar(c) == c \notin NONWORD

\* re.search(pattern, phon) for a pattern that is one character class
has(phon, pattern) == \E i \in DOMAIN phon : phon[i] \in pattern

is_vowel(phon) ==
    has(phon, SYLLABIC) \/ (has(phon, VOWEL) /\ ~has(phon, NONSYLLABIC))
is_liquid(phon) == has(phon, LIQUID) /\ ~has(phon, SYLLABIC)
is_stop(phon) == has(phon, STOP)
is_waw(phon) == has(phon, WAW)
is_velar(phon) == has(phon, VELAR)

(***************************************************************************)
(* Sequence helpers.                                                       *)
(***************************************************************************)
RECURSIVE Concat(_)
Concat(ss) == IF ss = << >> THEN << >> ELSE Head(ss) \o Concat(Tail(ss))

RECURSIVE SumLen(_)
SumLen(ss) == IF ss = << >> THEN 0 ELSE Len(Head(ss)) + SumLen(Tail(ss))

Last(s) == s[Len(s)]
Front(s) == SubSeq(s, 1, Len(s) - 1)

SeqsUpTo(S, n) == UNION {[1..k -> S] : k \in 0..n}

(***************************************************************************)
(* FrenchWord.phonemify                                                    *)
(***************************************************************************)
\* re.sub(STRESS, '', ipa)
StripStress(s) == SelectSeq(s, LAMBDA c : c \notin STRESS)

\* PHONEME = (STRESS? IPACHAR DIACRITIC*) tried at position i of t.
\* BaseAt: the position of the first \w of IPACHAR, 0 when there is no match.
\* The greedy STRESS? takes a stress mark first and gives it back when no \w
\* follows it (the stress marks are themselves \w).
BaseAt(t, i) ==
    IF i > Len(t) THEN 0
    ELSE IF t[i] \in STRESS /\ i + 1 <= Len(t) /\ IsWordChar(t[i + 1]) THEN i + 1
    ELSE IF IsWordChar(t[i]) THEN i
    ELSE 0

\* IPACHAR = \w(?:<tie>\w)? whose first \w is at j: the position of its end
IpaEnd(t, j) ==
    IF j + 2 <= Len(t) /\ t[j + 1] = TIE /\ IsWordChar(t[j + 2]) THEN j + 2 ELSE j

\* DIACRITIC* after position k: the position of the last diacritic taken
RECURSIVE DiaEnd(_, _)
DiaEnd(t, k) ==
    IF k + 1 <= Len(t) /\ t[k + 1] \in DIACRITIC THEN DiaEnd(t, k + 1) ELSE k

MatchEnd(t, i) == DiaEnd(t, IpaEnd(t, BaseAt(t, i)))

\* the positions from p on at which PHONEME matches
MatchStarts(t, p) == {i \in p..Len(t) : BaseAt(t, i) # 0}

Min(S) == CHOOSE x \in S : \A y \in S : x <= y

LengthMismatchOff(ps, t) == FALSE
\* sum(len(p) for p in self.phonemes) != len(ipa)
LengthMismatch(ps, t) == SumLen(ps) # Len(t)

\* ipa = self.ipa if stress else re.sub(STRESS, '', self.ipa)
PhonStrip ==
    /\ ppc = "start"
    /\ text' = IF stress THEN ipa ELSE StripStress(ipa)
    /\ pos' = 1
    /\ phonemes' = << >>
    /\ ppc' = "scan"
    /\ UNCHANGED <<ipa, stress>>
    /\ UNCHANGED svars /\ UNCHANGED ovars

\* re.findall: the next leftmost match from pos on
FindallMatch ==
    /\ ppc = "scan"
    /\ MatchStarts(text, pos) # {}
    /\ LET i == Min(MatchStarts(text, pos))
           e == MatchEnd(text, i)
       IN  /\ phonemes' = Append(phonemes, SubSeq(text, i, e))
           /\ pos' = e + 1
    /\ UNCHANGED <<ipa, stress, text, ppc>>
    /\ UNCHANGED svars /\ UNCHANGED ovars

\* re.findall: no further match
FindallEnd ==
    /\ ppc = "scan"
    /\ MatchStarts(text, pos) = {}
    /\ ppc' = "check"
    /\ UNCHANGED <<ipa, stress, text, pos, phonemes>>
    /\ UNCHANGED svars /\ UNCHANGED ovars

\* raise ValueError('Something got lost', ...)
PhonRaise ==
    /\ ppc = "check"
    /\ LengthMismatch(phonemes, text)
    /\ ppc' = "error"
    /\ UNCHANGED <<ipa, stress, text, pos, phonemes>>
    /\ UNCHANGED svars /\ UNCHANGED ovars

PhonReturn ==
    /\ ppc = "check"
    /\ ~LengthMismatch(phonemes, text)
    /\ ppc' = "ok"
    /\ UNCHANGED <<ipa, stress, text, pos, phonemes>>
    /\ UNCHANGED svars /\ UNCHANGED ovars

(***************************************************************************)
(* FrenchWord.syllabify                                                    *)
(***************************************************************************)
\* newsyll.insert(0, self.syllables[-1].pop()): <<what is left, newsyll>>
MoveOnsetAppend(prevsyll, newsyll) ==
    <<Front(prevsyll), newsyll \o <<Last(prevsyll)>> >>
MoveOnset(prevsyll, newsyll) ==
    <<Front(prevsyll), <<Last(prevsyll)>> \o newsyll>>

\* is_liquid(newsyll[0]) and is_stop(self.syllables[-1][-1])
StopLiquid(newsyll, prevsyll) ==
    is_liquid(newsyll[1]) /\ is_stop(Last(prevsyll))

\* kw_correction and is_waw(newsyll[0]) and is_velar(self.syllables[-1][-1])
VelarWaw(kw, newsyll, prevsyll) ==
    kw /\ is_waw(newsyll[1]) /\ is_velar(Last(prevsyll))

\* lines 68-76: <<what is left of the last syllable, the new syllable>>
Onset(kw, lastsyll, phon) ==
    IF is_vowel(Last(lastsyll)) THEN <<lastsyll, <<phon>> >>
    ELSE LET m1 == MoveOnset(lastsyll, <<phon>>)
         IN  IF StopLiquid(m1[2], m1[1]) THEN MoveOnset(m1[1], m1[2])
             ELSE IF VelarWaw(kw, m1[2], m1[1]) THEN MoveOnset(m1[1], m1[2])
             ELSE m1

SylStart ==
    /\ spc = "start"
    /\ syllables' = << << >> >>
    /\ initial' = TRUE
    /\ idx' = 1
    /\ spc' = "loop"
    /\ UNCHANGED <<kw_correction, phonemes>>
    /\ UNCHANGED pvars /\ UNCHANGED ovars

\* the first vowel of the word stays in the syllable of what precedes it
SylFirstVowel ==
    /\ spc = "loop" /\ idx <= Len(phonemes)
    /\ is_vowel(phonemes[idx]) /\ initial
    /\ syllables' = [syllables EXCEPT ![Len(syllables)] = Append(@, phonemes[idx])]
    /\ initial' = FALSE
    /\ idx' = idx + 1
    /\ UNCHANGED <<kw_correction, phonemes, spc>>
    /\ UNCHANGED pvars /\ UNCHANGED ovars

\* a later vowel opens a new syllable and takes its onset from the last one
SylNewSyllable ==
    /\ spc = "loop" /\ idx <= Len(phonemes)
    /\ is_vowel(phonemes[idx]) /\ ~initial
    /\ LET o == Onset(kw_correction, Last(syllables), phonemes[idx])
       IN  syllables' = Append([syllables EXCEPT ![Len(syllables)] = o[1]], o[2])
    /\ idx' = idx + 1
    /\ UNCHANGED <<kw_correction, phonemes, spc, initial>>
    /\ UNCHANGED pvars /\ UNCHANGED ovars

SylConsonant ==
    /\ spc = "loop" /\ idx <= Len(phonemes)
    /\ ~is_vowel(phonemes[idx])
    /\ syllables' = [syllables EXCEPT ![Len(syllables)] = Append(@, phonemes[idx])]
    /\ idx' = idx + 1
    /\ UNCHANGED <<kw_correction, phonemes, spc, initial>>
    /\ UNCHANGED pvars /\ UNCHANGED ovars

SylReturn ==
    /\ spc = "loop" /\ idx > Len(phonemes)
    /\ spc' = "done"
    /\ UNCHANGED <<kw_correction, phonemes, syllables, initial, idx>>
    /\ UNCHANGED pvars /\ UNCHANGED ovars

(***************************************************************************)
(* Orthography module: character classes and the rule library.  An emitted *)
(* spelling is a string; a letter outside ASCII is written {uXXXX}.        *)
(***************************************************************************)
\* V = VOWEL[:-1] + r'\u0303]'
V == VOWEL \cup {"u0303"}
\* the characters of the model: C = '[^' + VOWEL[1:] is their non-vowels
CHARS == VOWEL \cup LIQUID \cup STOP \cup WAW \cup DIACRITIC \cup STRESS \cup
         {TIE, "#", "f", "j", "m", "n", "s", "v", "z", "u0272", "u0283",
          "u0265", "u0292"}
C == CHARS \ VOWEL
BOUNDARY == {"#"}
LABIAL == {"p", "b"}
FRONT == {"u025c", "i", "y", "u026a", "u028f", "e", "u00f8", "u025b", "u0153",
          "u00e6", "u1d02", "a", "u0276"}
BACK == {"u0268", "u0289", "u0258", "u0275", "u025e", "u1d00", "u026f", "u",
         "u03c9", "u028a", "u0264", "o", "u028c", "u0254", "u0251", "u0252",
         "u0250"}
ORTHOSTRIP == {"u032a"}

doubled_consonantV(cons, prev, post) ==
    IF has(post, BOUNDARY) THEN cons \o "e"
    ELSE IF has(prev, V) /\ has(post, V) THEN cons \o cons
    ELSE cons
doubled_consonant(cons, prev, post) ==
    IF has(post, BOUNDARY) THEN cons \o "e"
    ELSE IF has(prev, VOWEL) /\ has(post, V) THEN cons \o cons
    ELSE cons

gfunc(prev, post) ==
    IF has(post, BOUNDARY) THEN "gue"
    ELSE IF has(post, FRONT) THEN "gu"
    ELSE IF has(prev, V) /\ has(post, V) THEN "gg"
    ELSE "g"

kfunc(prev, post) ==
    IF has(post, BOUNDARY) THEN (IF has(prev, C) THEN "que" ELSE "q")
    ELSE IF has(prev, V) /\ has(post, BACK) THEN "cc"
    ELSE IF has(post, V) THEN "qu"
    ELSE "c"

oslashfunc(prev, post) ==
    IF has(post, BOUNDARY) THEN "eux"
    ELSE IF has(prev, BOUNDARY) THEN "eu"
    ELSE "e{u00fb}"

oenfunc(prev, post) ==
    IF has(post, BOUNDARY) THEN "eun"
    ELSE IF has(post, LABIAL) THEN "um"
    ELSE "un"

sfunc(prev, post) ==
    IF has(prev, BOUNDARY) THEN "s"
    ELSE IF has(prev, V) /\ has(post, V) THEN "ss"
    ELSE IF has(post, C) THEN "s"
    ELSE IF has(post, FRONT) THEN "c"
    ELSE "{u00e7}"

zfunc(prev, post) ==
    IF has(post, BOUNDARY) THEN (IF has(prev, V) THEN "se" ELSE "ze")
    ELSE IF has(prev, V) /\ has(post, V) THEN "s"
    ELSE "z"

\* the set of spellings choice() may return
ezhfunc(prev, post) ==
    IF has(post, BOUNDARY) THEN {"ge"}
    ELSE IF has(post, FRONT) THEN {"g", "j"}
    ELSE {"ge", "j"}

(***************************************************************************)
(* FRENCH_ORTHO: the keys, which of them hold a function, and the          *)
(* spellings a key can produce in a context.                               *)
(***************************************************************************)
LiteralKeys ==
    {<<"a">>, <<"a", "u025b">>, <<"a", "u025b", "u0303">>, <<"a", "i">>,
     <<"a", "u">>, <<"u0251">>, <<"u0259">>, <<"u025b", "j">>,
     <<"j", "u025b">>, <<"k", "t">>, <<"u0272">>, <<"o", "u0281">>,
     <<"u0254">>, <<"u0254", "u025b">>, <<"u0254", "u025b", "u0303">>,
     <<"u0254", "i">>, <<"u0254", "u0281">>, <<"u0283">>, <<"u0265">>,
     <<"u0265", "i", "j">>, <<"w">>, <<"w", "a">>, <<"w", "u025b", "u0303">>}
FunctionKeys ==
    {<<"#">>, <<"u0251", "u0303">>, <<"b">>, <<"d">>, <<"e">>, <<"u025b">>,
     <<"u025b", "u0303">>, <<"f">>, <<"u0261">>, <<"i">>, <<"j">>,
     <<"j", "u025b", "u0303">>, <<"k">>, <<"k", "s">>, <<"l">>, <<"m">>,
     <<"n">>, <<"o">>, <<"o", "z">>, <<"u00f8">>, <<"u0153">>,
     <<"u0153", "u0303">>, <<"u0254", "u0303">>, <<"p">>, <<"u0281">>,
     <<"s">>, <<"t">>, <<"u">>, <<"v">>, <<"y">>, <<"z">>, <<"u0292">>}
Keys == LiteralKeys \cup FunctionKeys

FRENCH_ORTHO(key, prev, post) ==
    CASE key = <<"#">> -> {IF has(post, V) THEN "h" ELSE ""}
      [] key = <<"a">> -> {"a"}
      [] key = <<"a", "u025b">> -> {"a{u00eb}"}
      [] key = <<"a", "u025b", "u0303">> -> {"a{u00ef}n"}
      [] key = <<"a", "i">> -> {"a{u00ef}"}
      [] key = <<"a", "u">> -> {"aou"}
      [] key = <<"u0251">> -> {"{u00e2}"}
      [] key = <<"u0251", "u0303">> -> {IF has(post, LABIAL) THEN "am" ELSE "an"}
      [] key = <<"b">> -> {doubled_consonant("b", prev, post)}
      [] key = <<"d">> -> {doubled_consonant("d", prev, post)}
      [] key = <<"e">> -> {IF has(post, BOUNDARY) THEN "er" ELSE "{u00e9}"}
      [] key = <<"u0259">> -> {"e"}
      [] key = <<"u025b">> ->
            IF has(post, BOUNDARY) THEN {"ay"} ELSE {"ai", "{u00e8}"}
      [] key = <<"u025b", "u0303">> ->
            IF has(post, BOUNDARY) \/ has(post, LABIAL)
            THEN {"aim", "im"} ELSE {"ain", "in"}
      [] key = <<"u025b", "j">> -> {"ay"}
      [] key = <<"f">> -> {IF has(prev, V) /\ has(post, V) THEN "ff" ELSE "f"}
      [] key = <<"u0261">> -> {gfunc(prev, post)}
      [] key = <<"i">> -> {IF has(post, BOUNDARY) THEN "ie" ELSE "i"}
      [] key = <<"j">> -> {IF has(prev, BOUNDARY) THEN "{u00ef}" ELSE "i"}
      [] key = <<"j", "u025b">> -> {"ie"}
      [] key = <<"j", "u025b", "u0303">> ->
            {IF has(post, LABIAL) THEN "iem" ELSE "ien"}
      [] key = <<"k">> -> {kfunc(prev, post)}
      [] key = <<"k", "s">> ->
            {IF has(prev, V) /\ has(post, FRONT) THEN "cc" ELSE "x"}
      [] key = <<"k", "t">> -> {"ct"}
      [] key = <<"l">> -> {doubled_consonant("l", prev, post)}
      [] key = <<"m">> -> {doubled_consonant("m", prev, post)}
      [] key = <<"n">> -> {doubled_consonant("n", prev, post)}
      [] key = <<"u0272">> -> {"gn"}
      [] key = <<"o">> -> {IF has(post, BOUNDARY) THEN "ot" ELSE "au"}
      [] key = <<"o", "u0281">> -> {"or"}
      [] key = <<"o", "z">> -> {IF has(post, BOUNDARY) THEN "ose" ELSE "os"}
      [] key = <<"u00f8">> -> {oslashfunc(prev, post)}
      [] key = <<"u0153">> -> {IF has(post, C) THEN "{u0153}u" ELSE "{u0153}"}
      [] key = <<"u0153", "u0303">> -> {oenfunc(prev, post)}
      [] key = <<"u0254">> -> {"o"}
      [] key = <<"u0254", "u0303">> ->
            {IF has(post, BOUNDARY) \/ has(post, LABIAL) THEN "om" ELSE "on"}
      [] key = <<"u0254", "u025b">> -> {"o{u00eb}"}
      [] key = <<"u0254", "u025b", "u0303">> -> {"o{u00eb}n"}
      [] key = <<"u0254", "i">> -> {"o{u00ef}"}
      [] key = <<"u0254", "u0281">> -> {"aur"}
      [] key = <<"p">> -> {doubled_consonant("p", prev, post)}
      [] key = <<"u0281">> -> {IF has(post, BOUNDARY) THEN "re" ELSE "r"}
      [] key = <<"s">> -> {sfunc(prev, post)}
      [] key = <<"u0283">> -> {"ch"}
      [] key = <<"t">> -> {doubled_consonant("t", prev, post)}
      [] key = <<"u">> -> {IF has(post, BOUNDARY) THEN "oue" ELSE "ou"}
      [] key = <<"u0265">> -> {"u"}
      [] key = <<"u0265", "i", "j">> -> {"uy"}
      [] key = <<"v">> -> {IF has(post, BOUNDARY) THEN "ve" ELSE "v"}
      [] key = <<"w">> -> {"ou"}
      [] key = <<"w", "a">> -> {"oi"}
      [] key = <<"w", "u025b", "u0303">> -> {"oin"}
      [] key = <<"y">> -> {IF has(post, BOUNDARY) THEN "ue" ELSE "u"}
      [] key = <<"z">> -> {zfunc(prev, post)}
      [] key = <<"u0292">> -> ezhfunc(prev, post)

\* Trie.findlongest: the number of characters of the longest key that is a
\* prefix of word, 0 when no key is
findlongest(word) ==
    LET ns == {n \in 1..Len(word) : SubSeq(word, 1, n) \in Keys}
    IN  IF ns = {} THEN 0 ELSE CHOOSE n \in ns : \A m \in ns : m <= n

(***************************************************************************)
(* orthographize: one run of the generator is a record of its locals,      *)
(* the token it last yielded, the lookups it made and the error it raised. *)
(***************************************************************************)
ErrSnippet == 5

\* re.sub(ORTHOSTRIP, '', word)
StripBridge(w) == SelectSeq(w, LAMBDA c : c \notin ORTHOSTRIP)

\* f'#{word}#'
Pad(w) == <<"#">> \o w \o <<"#">>

PostOfSpan(word, eaten) == <<word[eaten]>>
\* post = word[eaten] if eaten<len(word) else ''
PostOf(word, eaten) == IF eaten < Len(word) THEN <<word[eaten + 1]>> ELSE << >>

PrevFromToken(word, eaten, token) == <<token>>
\* prev = word[eaten-1]
NextPrev(word, eaten, token) == <<word[eaten]>>

RestSkip(word, eaten) == SubSeq(word, eaten + 2, Len(word))
\* word = word[eaten:]
Rest(word, eaten) == SubSeq(word, eaten + 1, Len(word))

ErrorPayloadOne(whole, word) == <<whole, SubSeq(word, 1, 1)>>
\* ValueError(whole, word[:5])
ErrorPayload(whole, word) ==
    <<whole, SubSeq(word, 1, IF Len(word) < ErrSnippet THEN Len(word) ELSE ErrSnippet)>>

Fresh ==
    [pc |-> "start", whole |-> << >>, word |-> << >>, prev |-> << >>,
     token |-> "", out |-> << >>, calls |-> << >>, err |-> << >>]

\* lines 209-212
Started(g, w) ==
    [g EXCEPT !.pc = "loop", !.whole = Pad(StripBridge(w)),
              !.word = Pad(StripBridge(w)), !.prev = << >>]

\* lines 214, 217-221: the runs after one more iteration, one for each
\* spelling the production may pick
Yields(g) ==
    LET eaten == findlongest(g.word)
        key == SubSeq(g.word, 1, eaten)
        post == PostOf(g.word, eaten)
    IN  {[g EXCEPT !.token = t,
                   !.out = Append(@, t),
                   !.calls = Append(@, [key |-> key, eaten |-> eaten,
                                        fn |-> key \in FunctionKeys,
                                        prev |-> g.prev, post |-> post]),
                   !.prev = NextPrev(g.word, eaten, t),
                   !.word = Rest(g.word, eaten)]
         : t \in FRENCH_ORTHO(key, g.prev, post)}

\* lines 215-216
Raised(g) == [g EXCEPT !.pc = "error", !.err = ErrorPayload(g.whole, g.word)]

CanYield(g) == g.pc = "loop" /\ g.word # << >> /\ findlongest(g.word) # 0
CanRaise(g) == g.pc = "loop" /\ g.word # << >> /\ findlongest(g.word) = 0
CanStop(g) == g.pc = "loop" /\ g.word = << >>

OrthoStart ==
    /\ g1.pc = "start"
    /\ g1' = Started(g1, oword)
    /\ UNCHANGED <<oword, g2, dc, phonemes>>
    /\ UNCHANGED pvars /\ UNCHANGED svars

OrthoYield ==
    /\ CanYield(g1)
    /\ g1' \in Yields(g1)
    /\ UNCHANGED <<oword, g2, dc, phonemes>>
    /\ UNCHANGED pvars /\ UNCHANGED svars

OrthoRaise ==
    /\ CanRaise(g1)
    /\ g1' = Raised(g1)
    /\ UNCHANGED <<oword, g2, dc, phonemes>>
    /\ UNCHANGED pvars /\ UNCHANGED svars

\* while word: is false, the generator is exhausted
OrthoStop ==
    /\ CanStop(g1)
    /\ g1' = [g1 EXCEPT !.pc = "done"]
    /\ UNCHANGED <<oword, g2, dc, phonemes>>
    /\ UNCHANGED pvars /\ UNCHANGED svars

\* two runs of orthographize on the same word, iteration by iteration, each
\* with its own random draws
PairStart ==
    /\ g1.pc = "start" /\ g2.pc = "start"
    /\ g1' = Started(g1, oword) /\ g2' = Started(g2, oword)
    /\ UNCHANGED <<oword, dc, phonemes>>
    /\ UNCHANGED pvars /\ UNCHANGED svars

PairYield ==
    /\ CanYield(g1) /\ CanYield(g2)
    /\ g1' \in Yields(g1) /\ g2' \in Yields(g2)
    /\ UNCHANGED <<oword, dc, phonemes>>
    /\ UNCHANGED pvars /\ UNCHANGED svars

PairRaise ==
    /\ CanRaise(g1) /\ CanRaise(g2)
    /\ g1' = Raised(g1) /\ g2' = Raised(g2)
    /\ UNCHANGED <<oword, dc, phonemes>>
    /\ UNCHANGED pvars /\ UNCHANGED svars

PairStop ==
    /\ CanStop(g1) /\ CanStop(g2)
    /\ g1' = [g1 EXCEPT !.pc = "done"] /\ g2' = [g2 EXCEPT !.pc = "done"]
    /\ UNCHANGED <<oword, dc, phonemes>>
    /\ UNCHANGED pvars /\ UNCHANGED svars

\* one call of doubled_consonant
DoubledCall ==
    /\ dc.pc = "call"
    /\ dc' = [dc EXCEPT !.out = doubled_consonant(dc.cons, dc.prev, dc.post),
                        !.pc = "return"]
    /\ UNCHANGED <<oword, g1, g2, phonemes>>
    /\ UNCHANGED pvars /\ UNCHANGED svars

(***************************************************************************)
(* Specifications.                                                         *)
(***************************************************************************)
\* the characters the segmenter is run on: a base letter, a stress mark, a
\* modifier-letter diacritic, a combining diacritic and the tie bar
IpaAlphabet == {"a", "u02c8", "u02b0", "u0329", TIE}

\* the phonemes the syllabifier is run on: a vowel, a non-syllabic vowel, a
\* (velar) stop, a liquid, the glide, a syllabic stop, a tie-barred liquid and
\* vowel
PhonemeSamples ==
    {<<"a">>, <<"a", "u032f">>, <<"k">>, <<"l">>, <<"w">>,
     <<"t", "u0329">>, <<"l", TIE, "a">>}

\* the characters the transducer is run on
OrthoAlphabet == {"a", "u0251", "u0303", "b", "u0292", "u032a", "r"}

PhonIdle ==
    /\ stress = TRUE /\ text = ipa /\ pos = Len(ipa) + 1 /\ ppc = "ok"
SylIdle ==
    /\ kw_correction = FALSE /\ syllables = << << >> >> /\ initial = TRUE
    /\ idx = 1 /\ spc = "start"
DcIdle == dc = [pc |-> "idle", cons |-> "", prev |-> << >>, post |-> << >>, out |-> ""]
OrthoIdle == oword = << >> /\ g1 = Fresh /\ g2 = Fresh /\ DcIdle

\* the letters the table passes to doubled_consonant, and its contexts: no
\* character, or one of the boundary, two vowels, the nasal tilde, a labial
\* stop, a liquid and a fricative
DoubledLetters == {"b", "d", "l", "m", "n", "p", "t"}
Contexts == {<< >>} \cup {<<c>> : c \in {"#", "a", "u0251", "u0303", "b", "r", "u0292"}}

InitPhonemify ==
    /\ ipa \in SeqsUpTo(IpaAlphabet, MaxIpa)
    /\ stress \in BOOLEAN
    /\ text = << >> /\ pos = 1 /\ phonemes = << >> /\ ppc = "start"
    /\ SylIdle /\ OrthoIdle
NextPhonemify == PhonStrip \/ FindallMatch \/ FindallEnd \/ PhonRaise \/ PhonReturn
SpecPhonemify == InitPhonemify /\ [][NextPhonemify]_vars

InitSyllabify ==
    /\ phonemes \in SeqsUpTo(PhonemeSamples, MaxPhonemes)
    /\ ipa = Concat(phonemes)
    /\ PhonIdle
    /\ kw_correction \in BOOLEAN
    /\ syllables = << << >> >> /\ initial = TRUE /\ idx = 1 /\ spc = "start"
    /\ OrthoIdle
NextSyllabify ==
    SylStart \/ SylFirstVowel \/ SylNewSyllable \/ SylConsonant \/ SylReturn
SpecSyllabify == InitSyllabify /\ [][NextSyllabify]_vars

InitOrtho ==
    /\ oword \in SeqsUpTo(OrthoAlphabet, MaxWord)
    /\ g1 = Fresh /\ g2 = Fresh /\ DcIdle
    /\ ipa = << >> /\ phonemes = << >> /\ PhonIdle /\ SylIdle
NextOrtho == OrthoStart \/ OrthoYield \/ OrthoRaise \/ OrthoStop
SpecOrtho == InitOrtho /\ [][NextOrtho]_vars

\* orthographize run to its end: the consumer of the generator (''.join, a for
\* loop) resumes it until it is exhausted or raises, so a step that can be
\* taken is taken
InitOrthoFair ==
    /\ oword \in SeqsUpTo(OrthoAlphabet, MaxFairWord)
    /\ g1 = Fresh /\ g2 = Fresh /\ DcIdle
    /\ ipa = << >> /\ phonemes = << >> /\ PhonIdle /\ SylIdle
SpecOrthoFair == InitOrthoFair /\ [][NextOrtho]_vars /\ WF_vars(NextOrtho)

InitPair ==
    /\ oword \in SeqsUpTo(OrthoAlphabet, MaxPairWord)
    /\ g1 = Fresh /\ g2 = Fresh /\ DcIdle
    /\ ipa = << >> /\ phonemes = << >> /\ PhonIdle /\ SylIdle
NextPair == PairStart \/ PairYield \/ PairRaise \/ PairStop
SpecPair == InitPair /\ [][NextPair]_vars

InitDoubled ==
    /\ dc \in [pc : {"call"}, cons : DoubledLetters, prev : Contexts,
                post : Contexts, out : {""}]
    /\ oword = << >> /\ g1 = Fresh /\ g2 = Fresh
    /\ ipa = << >> /\ phonemes = << >> /\ PhonIdle /\ SylIdle
NextDoubled == DoubledCall
SpecDoubled == InitDoubled /\ [][NextDoubled]_vars

(***************************************************************************)
(* Properties.                                                             *)
(***************************************************************************)
Vowels(syll) == {j \in DOMAIN syll : is_vowel(syll[j])}

\* the syllable that holds the i-th phoneme of the word
SylIndex(i) ==
    CHOOSE s \in 1..Len(syllables) :
        /\ SumLen(SubSeq(syllables, 1, s - 1)) < i
        /\ i <= SumLen(SubSeq(syllables, 1, s))

StopLiquidVowelAt(i) ==
    /\ is_stop(phonemes[i])
    /\ is_liquid(phonemes[i + 1])
    /\ is_vowel(phonemes[i + 2])

\* C1: when the word has a vowel, every syllable syllabify leaves holds
\* exactly one phoneme that is_vowel, for either value of kw_correction.
C1_SingleNucleus ==
    (spc = "done" /\ \E i \in DOMAIN phonemes : is_vowel(phonemes[i]))
        => \A s \in DOMAIN syllables : Cardinality(Vowels(syllables[s])) = 1

\* C2: the syllables syllabify leaves, concatenated in order, are the phoneme
\* sequence it was given: nothing lost, duplicated or reordered.
C2_SyllableRoundTrip ==
    spc = "done" => Concat(syllables) = phonemes

C2_Witness ==
    /\ spc = "done" /\ Len(syllables) >= 2
    /\ Len(syllables[1]) >= 1
    /\ Len(syllables[2]) >= 3
    /\ is_stop(syllables[2][1]) /\ is_liquid(syllables[2][2])

\* C3: a stop, a liquid and a vowel in a row always end in one syllable, the
\* stop and the liquid before the vowel, whether or not the vowel is the first
\* of the word.  The liquid is taken to be a consonant: a phoneme that is both
\* is_liquid and is_vowel is a nucleus of its own.
C3_OnsetCluster ==
    spc = "done" =>
        \A i \in 1..(Len(phonemes) - 2) :
            (StopLiquidVowelAt(i) /\ ~is_vowel(phonemes[i + 1])) =>
                SylIndex(i) = SylIndex(i + 2) /\ SylIndex(i + 1) = SylIndex(i + 2)

\* C4: when phonemify returns, its phonemes concatenated in order are the
\* input, without its stress marks when stress is off; a list that lost or
\* repeated a character is never returned.
C4_SegmentationRoundTrip ==
    ppc = "ok" =>
        Concat(phonemes) =
            (IF stress THEN ipa
             ELSE SelectSeq(ipa, LAMBDA c : c # "u02c8" /\ c # "u02cc"))

C4_Witness ==
    /\ ppc = "ok" /\ ~stress
    /\ Len(text) < Len(ipa)
    /\ Len(phonemes) >= 2
    /\ \E k \in DOMAIN phonemes : Len(phonemes[k]) >= 3

LegalSymbols ==
    VOWEL \cup LIQUID \cup STOP \cup WAW \cup VELAR \cup DIACRITIC \cup STRESS
        \cup BOUNDARY

\* C5: every legal symbol has a length-1 key, so a word of legal symbols that
\* starts with a base symbol never reaches the zero-characters-consumed error.
C5_Coverage ==
    (/\ oword # << >>
     /\ \A i \in DOMAIN oword : oword[i] \in LegalSymbols
     /\ oword[1] \notin DIACRITIC \cup STRESS)
        => g1.pc # "error"

\* C6: two runs of orthographize on one word make the same lookups (key,
\* characters consumed) with the same prev and post at every step and are
\* left with the same input and prev, whatever their random draws.
C6_LongestMatchDeterminism ==
    /\ g1.calls = g2.calls
    /\ g1.word = g2.word
    /\ g1.prev = g2.prev
    /\ g1.pc = g2.pc

C6_Witness ==
    /\ g1.pc = "done" /\ g2.pc = "done"
    /\ g1.out # g2.out
    /\ Len(g1.calls) >= 4

\* C7 as stated: the error carries the padded word and the whole remainder.
C7_WholeRemainder ==
    g1.pc = "error" =>
        g1.err = <<(<<"#">> \o SelectSeq(oword, LAMBDA c : c # "u032a")) \o <<"#">>,
                   g1.word>>

\* C7 as amended: the error carries the padded word and the first five
\* characters of the remainder (all of it when it has at most five).
C7_ErrorPayload ==
    g1.pc = "error" =>
        /\ g1.err[1] = (<<"#">> \o SelectSeq(oword, LAMBDA c : c # "u032a")) \o <<"#">>
        /\ Len(g1.err[2]) = (IF Len(g1.word) < 5 THEN Len(g1.word) ELSE 5)
        /\ \A k \in 1..Len(g1.err[2]) : g1.err[2][k] = g1.word[k]

C7_Witness ==
    /\ g1.pc = "error"
    /\ Len(g1.word) > 5
    /\ Len(g1.err[2]) = 5

PlainVowel(c) == c \in VOWEL
NasalTilde(c) == c = "u0303"

\* C8 as stated: cons+'e' before the boundary; otherwise the doubled letter
\* exactly when prev is a vowel and post is a non-nasal vowel; otherwise cons.
C8_DoubledNonNasalPost ==
    dc.pc = "return" =>
        dc.out =
            (IF dc.post = <<"#">> THEN dc.cons \o "e"
             ELSE IF /\ dc.prev # << >> /\ PlainVowel(dc.prev[1])
                     /\ dc.post # << >> /\ PlainVowel(dc.post[1])
                  THEN dc.cons \o dc.cons
             ELSE dc.cons)

\* C8 as amended: cons+'e' before the boundary; otherwise the doubled letter
\* exactly when prev is a vowel symbol (not the nasal tilde) and post is a
\* vowel symbol or the nasal tilde; otherwise cons.
C8_DoubledConsonant ==
    dc.pc = "return" =>
        dc.out =
            (IF dc.post = <<"#">> THEN dc.cons \o "e"
             ELSE IF /\ dc.prev # << >> /\ PlainVowel(dc.prev[1])
                     /\ dc.post # << >>
                     /\ (PlainVowel(dc.post[1]) \/ NasalTilde(dc.post[1]))
                  THEN dc.cons \o dc.cons
             ELSE dc.cons)

C8_Witness ==
    /\ dc.pc = "return"
    /\ dc.prev = <<"a">> /\ dc.post = <<"u0303">>
    /\ dc.out = dc.cons \o dc.cons

\* where the k-th matched span starts in the padded word
RECURSIVE SpanStart(_, _)
SpanStart(calls, k) ==
    IF k = 1 THEN 1 ELSE SpanStart(calls, k - 1) + calls[k - 1].eaten

RawBefore(whole, calls, k) == <<whole[SpanStart(calls, k) - 1]>>
RawAfter(whole, calls, k) ==
    LET n == SpanStart(calls, k) + calls[k].eaten
    IN  IF n <= Len(whole) THEN <<whole[n]>> ELSE << >>

\* C9 as stated: a production function gets the raw character before the
\* span as prev, '#' on the first iteration, and the raw character after the
\* span as post ('' at the end).
C9_ContextBoundaryFirst ==
    \A k \in DOMAIN g1.calls :
        g1.calls[k].fn =>
            /\ g1.calls[k].prev =
                  (IF k = 1 THEN <<"#">> ELSE RawBefore(g1.whole, g1.calls, k))
            /\ g1.calls[k].post = RawAfter(g1.whole, g1.calls, k)

\* C9 as amended: a production function gets the raw character before the
\* span as prev, which is '' on the first iteration (the span is then the
\* leading '#'), and the raw character after the span as post ('' at the end).
C9_ContextArguments ==
    \A k \in DOMAIN g1.calls :
        g1.calls[k].fn =>
            /\ g1.calls[k].prev =
                  (IF k = 1 THEN << >> ELSE RawBefore(g1.whole, g1.calls, k))
            /\ g1.calls[k].post = RawAfter(g1.whole, g1.calls, k)

C9_Witness ==
    /\ g1.pc = "done"
    /\ \E k \in DOMAIN g1.calls :
          /\ k > 2 /\ g1.calls[k].fn /\ g1.calls[k].eaten = 2
          /\ g1.calls[k].post # <<"#">>
    /\ g1.out # << >> /\ \E k \in DOMAIN g1.out : g1.out[k] = "j"

Spans(calls) == [k \in DOMAIN calls |-> calls[k].key]

C10_Measure ==
    /\ g1.pc # "start" => Len(g1.calls) + Len(g1.word) <= Len(g1.whole)
    /\ Len(g1.calls) <= Len(oword) + 2
    /\ \A k \in DOMAIN g1.calls : g1.calls[k].eaten >= 1
    /\ g1.pc = "done" =>
          Concat(Spans(g1.calls)) =
              (<<"#">> \o SelectSeq(oword, LAMBDA c : c # "u032a")) \o <<"#">>

\* C10: every iteration that does not raise consumes at least one character,
\* so there are at most len(word)+2 of them and the run always finishes or
\* raises; a run that finishes has consumed, span after span, '#'+word+'#'
\* without the bridge diacritic.
C10_Progress ==
    /\ []C10_Measure
    /\ <>(g1.pc \in {"done", "error"})

C10_Witness ==
    /\ g1.pc = "done"
    /\ \E i \in DOMAIN oword : oword[i] = "u032a"
    /\ \E k \in DOMAIN g1.calls : g1.calls[k].eaten = 2
    /\ Len(g1.calls) >= 4

====
